---- MODULE Spec2Model ----
(***************************************************************************)
(* SmartStepper (src/rmp/SmartStepper.py): the HTTP handlers of the motor  *)
(* session, the one motor reference they share (self.stepper_motor), and   *)
(* the calls they make on the MotorControl driver.  The driver library and *)
(* the HTTP server are outside the repository: every driver call takes its *)
(* outcome (return value or raised exception) from the environment.        *)
(***************************************************************************)
EXTENDS Integers, Sequences, FiniteSets, TLC

\* ------------------------------------------------------------------ bounds
\* Number of driver objects create_motor may hand out in one behaviour.
MaxHandles == 2

\* ------------------------------------------------- variables (the program)
VARIABLES
    cfgFile,         \* the configuration file on disk when the program starts
    startup,         \* what run.py's main has made of it: not run, crashed, or host and port
    config,          \* self.config, fixed by __init__
    stepper_motor,   \* self.stepper_motor: 0 is None, h > 0 a driver object
    created,         \* driver objects handed out by create_motor so far
    hstate,          \* per driver object: what the calls made on it left it in
    serverRunning,   \* server.start() called and server.stop() not yet
    \* ---- the request handled last (sequential transport)
    last,            \* which handler ran, on which request, holding which handle
    calls,           \* the driver calls that handler made, in order
    response,        \* the response object it built
    sent,            \* number of response bodies it sent
    escaped,         \* an exception propagated out of it
    \* ---- history of the session, in the specification's vocabulary
    state,           \* Uninitialized / Initialized / Faulted, as the outcomes so far make it
    everInitOk,      \* some initialize has succeeded
    \* ---- concurrent transport: one handler per thread, one step per access
    pc,              \* per thread: position in its handler
    treq,            \* per thread: the command it parsed
    tcalls           \* per thread: the driver calls made for its request

vars == <<cfgFile, startup, config, stepper_motor, created, hstate, serverRunning, last, calls,
          response, sent, escaped, state, everInitOk,
          pc, treq, tcalls>>

concVars == <<pc, treq, tcalls>>

Handles == 1..MaxHandles

\* ------------------------------------------------------------ JSON values
\* A JSON value as Python sees it: a number, a string (its characters) or null.
Num(n) == [ty |-> "num", n |-> n, s |-> <<>>]
Str(s) == [ty |-> "str", n |-> 0, s |-> s]
Null   == [ty |-> "null", n |-> 0, s |-> <<>>]

\* Result of a Python expression: a value, or a raised exception.
Ok(v)  == [ok |-> TRUE, v |-> v]
Raise  == [ok |-> FALSE, v |-> Null]

DigitVal(c) ==
    CASE c = "0" -> 0 [] c = "1" -> 1 [] c = "2" -> 2 [] c = "3" -> 3
      [] c = "4" -> 4 [] c = "5" -> 5 [] c = "6" -> 6 [] c = "7" -> 7
      [] c = "8" -> 8 [] c = "9" -> 9 [] OTHER -> -1

RECURSIVE DigitsVal(_)
DigitsVal(s) ==
    IF s = <<>> THEN 0
    ELSE 10 * DigitsVal(SubSeq(s, 1, Len(s) - 1)) + DigitVal(s[Len(s)])

AllDigits(s) == s # <<>> /\ \A i \in DOMAIN s : DigitVal(s[i]) >= 0

\* Python's numeric parse of a string: an optional sign, then digits.
ParseNumber(s) ==
    IF s # <<>> /\ s[1] = "-" /\ AllDigits(Tail(s)) THEN Ok(Num(0 - DigitsVal(Tail(s))))
    ELSE IF AllDigits(s) THEN Ok(Num(DigitsVal(s)))
    ELSE Raise

\* float(x) and int(x) of a JSON value (numbers are whole in this model).
PyFloat(v) ==
    CASE v.ty = "num" -> Ok(v)
      [] v.ty = "str" -> ParseNumber(v.s)
      [] OTHER        -> Raise

\* An int() that answers 0 for what it cannot convert.
PyIntLenient(v) ==
    CASE v.ty = "num" -> Ok(v)
      [] v.ty = "str" -> IF ParseNumber(v.s).ok THEN ParseNumber(v.s) ELSE Ok(Num(0))
      [] OTHER        -> Ok(Num(0))

PyInt(v) ==
    CASE v.ty = "num" -> Ok(v)
      [] v.ty = "str" -> ParseNumber(v.s)
      [] OTHER        -> Raise

LowerChar(c) ==
    CASE c = "F" -> "f" [] c = "O" -> "o" [] c = "R" -> "r" [] c = "W" -> "w"
      [] c = "A" -> "a" [] c = "D" -> "d" [] c = "B" -> "b" [] c = "C" -> "c"
      [] c = "K" -> "k" [] c = "L" -> "l" [] c = "E" -> "e" [] c = "T" -> "t"
      [] OTHER -> c

\* str.lower()
Lower(s) == [i \in DOMAIN s |-> LowerChar(s[i])]

\* The direction compared as it was sent, without lower().
PyLowerIdentity(v) == IF v.ty = "str" THEN Ok(v) ELSE Raise
\* direction.lower(): only a string has the method.
PyLower(v) == IF v.ty = "str" THEN Ok(Str(Lower(v.s))) ELSE Raise

\* dict.get(key, default)
Get(d, k, default) == IF k \in DOMAIN d THEN d[k] ELSE default

forward  == <<"f", "o", "r", "w", "a", "r", "d">>
Forward  == <<"F", "o", "r", "w", "a", "r", "d">>
backward == <<"b", "a", "c", "k", "w", "a", "r", "d">>
left     == <<"l", "e", "f", "t">>
FORWARD  == <<"F", "O", "R", "W", "A", "R", "D">>

\* -------------------------------------------------------------- requests
\* An HTTP request is its lines (request.split('\r\n')): the request line,
\* headers, blank lines, and lines of text.  A line of text is a JSON text:
\* an object (its fields), a JSON value that is no object, or no JSON at all.
NoJson       == [kind |-> "none", fields |-> <<>>]
Malformed    == [kind |-> "malformed", fields |-> <<>>]
NonObject    == [kind |-> "nonobject", fields |-> <<>>]
Object(f)    == [kind |-> "object", fields |-> f]

StartLine    == [t |-> "start", json |-> NoJson]
HeaderLine   == [t |-> "header", json |-> NoJson]
BlankLine    == [t |-> "blank", json |-> NoJson]
TextLine(j)  == [t |-> "text", json |-> j]

RECURSIVE BodyFrom(_, _)
BodyFrom(lines, body_start) ==
    IF lines = <<>> THEN <<>>
    ELSE IF body_start
         THEN (IF Head(lines).t = "blank" THEN <<>> ELSE <<Head(lines)>>)
              \o BodyFrom(Tail(lines), TRUE)
         ELSE BodyFrom(Tail(lines), Head(lines).t = "blank")

\* _get_request_body: the concatenation of every line after the first blank one.
GetRequestBody(request) == BodyFrom(request, FALSE)

\* json.loads(body) if body else {}
\* The value is a dict (its fields) or some other JSON value.
Dict(f)  == [dict |-> TRUE, f |-> f]
NotADict == [dict |-> FALSE, f |-> <<>>]

JsonLoads(body) ==
    IF body = <<>> THEN Ok(Dict(<<>>))
    ELSE IF Len(body) = 1 /\ body[1].t = "text" /\ body[1].json.kind = "object"
         THEN Ok(Dict(body[1].json.fields))
    ELSE IF Len(body) = 1 /\ body[1].t = "text" /\ body[1].json.kind = "nonobject"
         THEN Ok(NotADict)
    ELSE [ok |-> FALSE, v |-> NotADict]

Post(j)      == <<StartLine, HeaderLine, BlankLine, TextLine(j)>>
PostNoBody   == <<StartLine, HeaderLine, BlankLine>>
PostNoBlank  == <<StartLine, HeaderLine>>
GetRequest   == <<StartLine, HeaderLine, BlankLine>>

\* --------------------------------------------------------- configuration
\* The built-in configuration _load_config falls back to.
DefaultConfig ==
    [server |-> [host |-> "0.0.0.0", port |-> 8080],
     motor  |-> [default_pins |-> [step_pin |-> Num(18), dir_pin |-> Num(19),
                                   enable_pin |-> Num(20)],
                 default_settings |-> [microsteps |-> Num(1), default_speed |-> Num(60),
                                       default_steps |-> Num(200)]],
     web_interface |-> [title |-> "SmartStepper Control",
                        description |-> "Control your stepper motor with direction and speed settings",
                        speed_range |-> [min |-> 0, max |-> 1000],
                        steps_range |-> [min |-> 1, max |-> 10000]]]

\* A configuration file: whether it exists, whether it is JSON, and what it holds.
ConfigFile(exists, valid, content) == [exists |-> exists, valid |-> valid, content |-> content]

ConfigFiles ==
    { ConfigFile(FALSE, FALSE, <<>>),
      ConfigFile(TRUE, FALSE, <<>>),
      ConfigFile(TRUE, TRUE,
          [server |-> [host |-> "127.0.0.1", port |-> 9090],
           motor  |-> [default_pins |-> [step_pin |-> Num(5), dir_pin |-> Num(6),
                                         enable_pin |-> Num(7)],
                       default_settings |-> [microsteps |-> Num(8), default_speed |-> Num(120),
                                             default_steps |-> Num(400)]],
           web_interface |-> [speed_range |-> [min |-> 10, max |-> 500]]]),
      ConfigFile(TRUE, TRUE, [motor |-> [default_pins |-> [step_pin |-> Num(5)]]]) }

\* _load_config: the file's content when it exists and parses, else the defaults.
LoadConfig(file) ==
    IF file.exists /\ file.valid THEN file.content ELSE DefaultConfig

\* run.py, load_config: the defaults it returns when the file does not exist.
RunDefaultConfig ==
    [server |-> [host |-> "0.0.0.0", port |-> 8080],
     motor  |-> [default_pins |-> [step_pin |-> Num(18), dir_pin |-> Num(19),
                                   enable_pin |-> Num(20)]]]

\* run.py, load_config: json.load of the file when it exists (nothing catches
\* a parse error), else the defaults above.
RunLoadConfig(file) ==
    IF ~file.exists THEN Ok(RunDefaultConfig)
    ELSE IF file.valid THEN Ok(file.content)
    ELSE Raise

\* d[k] of a dict: a KeyError when the key is absent.
Subscript(d, k) == IF k \in DOMAIN d THEN Ok(d[k]) ELSE [ok |-> FALSE, v |-> <<>>]

\* Command-line arguments of run.py: --host and --port, "" and 0 when not given.
RunArgs == { [host |-> "", port |-> 0], [host |-> "10.0.0.1", port |-> 8000] }

NotRun  == [ran |-> FALSE, ok |-> FALSE, host |-> "", port |-> 0, config |-> <<>>]
Crashed == [ran |-> TRUE, ok |-> FALSE, host |-> "", port |-> 0, config |-> <<>>]

\* run.py, main, lines 63-68: load the configuration, then
\* host = args.host or config['server']['host'], and the same for port.
RunStartup(file, args) ==
    LET loaded == RunLoadConfig(file)
        server == Subscript(loaded.v, "server")
        host   == IF args.host # "" THEN Ok(args.host)
                  ELSE IF server.ok THEN Subscript(server.v, "host") ELSE server
        port   == IF args.port # 0 THEN Ok(args.port)
                  ELSE IF server.ok THEN Subscript(server.v, "port") ELSE server
    IN  IF loaded.ok /\ host.ok /\ port.ok
        THEN [ran |-> TRUE, ok |-> TRUE, host |-> host.v, port |-> port.v,
              config |-> loaded.v]
        ELSE Crashed

\* get_layout: what the form description takes from the configuration.
Layout(cfg) ==
    LET web_config    == Get(cfg, "web_interface", <<>>)
        motor_config  == Get(cfg, "motor", <<>>)
        speed_range   == Get(web_config, "speed_range", <<>>)
        steps_range   == Get(web_config, "steps_range", <<>>)
        settings      == Get(motor_config, "default_settings", <<>>)
    IN  [speed_min |-> Get(speed_range, "min", 0),
         speed_max |-> Get(speed_range, "max", 1000),
         speed_default |-> Get(settings, "default_speed", Num(60)).n,
         steps_min |-> Get(steps_range, "min", 1),
         steps_max |-> Get(steps_range, "max", 10000),
         steps_default |-> Get(settings, "default_steps", Num(200)).n]

\* The pins and microsteps initialize_motor passes to create_motor.
InitPins(data, cfg) ==
    LET motor            == Get(cfg, "motor", <<>>)
        default_pins     == Get(motor, "default_pins", <<>>)
        default_settings == Get(motor, "default_settings", <<>>)
    IN  [step_pin   |-> Get(data, "step_pin", Get(default_pins, "step_pin", Num(18))),
         dir_pin    |-> Get(data, "dir_pin", Get(default_pins, "dir_pin", Num(19))),
         enable_pin |-> Get(data, "enable_pin", Get(default_pins, "enable_pin", Num(20))),
         microsteps |-> Get(data, "microsteps", Get(default_settings, "microsteps", Num(1)))]

\* ------------------------------------------------------------- responses
NoFields == {}
Resp(status, message, fields, position, speed, initialized) ==
    [status |-> status, message |-> message, fields |-> fields,
     position |-> position, speed |-> speed, initialized |-> initialized]

NoResponse == Resp("none", "", NoFields, 0, 0, FALSE)

NotInitializedResponse ==
    Resp("error", "Motor not initialized. Please initialize first.", NoFields, 0, 0, FALSE)
MoveSuccessResponse(position) ==
    Resp("success", "Motor moved {steps} steps {direction} at {speed} RPM",
         {"position"}, position, 0, FALSE)
\* A failed move answered with a status outside the response contract.
MoveFailedResponseOffContract ==
    Resp("failed", "Failed to move motor", NoFields, 0, 0, FALSE)
MoveFailedResponse ==
    Resp("error", "Failed to move motor", NoFields, 0, 0, FALSE)
ControlErrorResponse ==
    Resp("error", "Error controlling motor: {e}", NoFields, 0, 0, FALSE)

StatusNotInitializedResponse ==
    Resp("not_initialized", "Motor not initialized", NoFields, 0, 0, FALSE)
\* motor_status.get(key, default) for each of the three keys
StatusInitializedResponse(motor_status) ==
    Resp("initialized", "Motor is ready", {"position", "speed", "initialized"},
         Get(motor_status, "position", 0), Get(motor_status, "speed", 0),
         Get(motor_status, "initialized", FALSE))

InitSuccessResponse ==
    Resp("success", "Stepper motor initialized successfully with pins: {pins}",
         NoFields, 0, 0, FALSE)
InitFailedResponse ==
    Resp("error", "Failed to initialize stepper motor", NoFields, 0, 0, FALSE)
InitErrorResponse ==
    Resp("error", "Error initializing motor: {e}", NoFields, 0, 0, FALSE)

\* ----------------------------------------------------------- driver calls
\* One call on the driver library: the object it is made on (0: the
\* controller), the method, its arguments, and what came back.
NoArgs  == [speed |-> 0, steps |-> 0, dir |-> FALSE, pins |-> <<>>]
Ret(kind, val, st) == [kind |-> kind, val |-> val, st |-> st]
Call(h, op, args, ret) == [h |-> h, op |-> op, args |-> args, ret |-> ret]

Returned(kind) == Ret(kind, 0, <<>>)
Raised         == Ret("raise", 0, <<>>)

\* What the driver may answer.
Positions == {0, 100}
DriverStatuses ==
    { <<>>,
      [position |-> 0, speed |-> 0, initialized |-> TRUE],
      [position |-> 100, speed |-> 30, initialized |-> TRUE],
      [position |-> 100, speed |-> 30, initialized |-> FALSE] }

\* -------------------------------------------------------------- requests
ControlBodies ==
    { Object([direction |-> Str(forward), speed |-> Num(60), steps |-> Num(200)]),
      Object([direction |-> Str(backward), speed |-> Num(30), steps |-> Num(100)]),
      Object([direction |-> Str(Forward), speed |-> Str(<<"3", "0">>), steps |-> Num(100)]),
      Object([direction |-> Str(left), steps |-> Str(<<"1", "0", "0">>)]),
      Object([direction |-> Num(1), speed |-> Num(60)]),
      Object([speed |-> Str(<<"f", "a", "s", "t">>)]),
      Object([steps |-> Null]),
      Object([speed |-> Num(-30), steps |-> Num(-100)]),
      Object([direction |-> Str(FORWARD), speed |-> Num(2000), steps |-> Num(20000)]),
      Malformed, NonObject }

ControlRequests == { Post(j) : j \in ControlBodies } \cup { PostNoBody, PostNoBlank }

InitBodies ==
    { Object([step_pin |-> Num(18), dir_pin |-> Num(19), enable_pin |-> Num(20)]),
      Object([step_pin |-> Num(2), microsteps |-> Num(16)]),
      Malformed, NonObject }

InitRequests == { Post(j) : j \in InitBodies } \cup { PostNoBody }

\* The command control_motor parses out of a request, or the exception raised
\* on the way (json.loads, data.get, float, int).
ParseControl(request) ==
    LET parsed == JsonLoads(GetRequestBody(request))
        data   == parsed.v.f
        speed  == PyFloat(Get(data, "speed", Num(60)))
        steps  == PyInt(Get(data, "steps", Num(200)))
    IN  IF parsed.ok /\ parsed.v.dict /\ speed.ok /\ steps.ok
        THEN [ok |-> TRUE, direction |-> Get(data, "direction", Str(forward)),
              speed |-> speed.v.n, steps |-> steps.v.n]
        ELSE [ok |-> FALSE, direction |-> Null, speed |-> 0, steps |-> 0]

\* motor_direction = direction.lower() == 'forward'
MotorDirection(lowered) == lowered = Str(forward)

\* ------------------------------------------- the session's state machine
\* The state the specification gives the session after an operation.
Uninitialized == "Uninitialized"
Initialized   == "Initialized"
Faulted       == "Faulted"

Last(op, request) ==
    [op |-> op, request |-> request, motor |-> stepper_motor, state |-> state]

\* ------------------------------------------------------------------ Init
Threads == {1, 2}
NoCommand == [ok |-> FALSE, direction |-> Null, speed |-> 0, steps |-> 0]

Init ==
    /\ cfgFile \in ConfigFiles
    /\ startup = NotRun
    /\ config = LoadConfig(cfgFile)
    /\ stepper_motor = 0
    /\ created = 0
    /\ hstate = [h \in Handles |-> "none"]
    /\ serverRunning = FALSE
    /\ last = [op |-> "none", request |-> <<>>, motor |-> 0, state |-> Uninitialized]
    /\ calls = <<>>
    /\ response = NoResponse
    /\ sent = 0
    /\ escaped = FALSE
    /\ state = Uninitialized
    /\ everInitOk = FALSE
    /\ pc = [t \in Threads |-> "idle"]
    /\ treq = [t \in Threads |-> NoCommand]
    /\ tcalls = [t \in Threads |-> <<>>]

\* ---------------------------------------------------- sequential handlers
\* start(): the server loop runs.
Start ==
    /\ ~serverRunning
    /\ serverRunning' = TRUE
    /\ UNCHANGED <<cfgFile, startup, config, stepper_motor, created, hstate, last, calls, response,
                   sent, escaped, state, everInitOk, concVars>>

\* The end of a handler that reached its send calls with `resp`.
Send(op, request, resp, made) ==
    /\ last' = Last(op, request)
    /\ calls' = made
    /\ response' = resp
    /\ sent' = 1
    /\ escaped' = FALSE

\* A rejected initialize that drops the handle the session held.
MotorAfterRejectedInitCleared(h) == 0
\* What initialize_motor leaves in self.stepper_motor when the exception comes
\* before create_motor has returned: the assignment is never reached.
MotorAfterRejectedInit(h) == h

\* initialize_motor where nothing is created: the body does not parse, or
\* create_motor raises.
InitializeRejected(request, oCreate) ==
    LET parsed == JsonLoads(GetRequestBody(request))
        isData == parsed.ok /\ parsed.v.dict
    IN  /\ isData => oCreate = "raise"
        /\ Send("initialize", request, InitErrorResponse,
                IF isData
                THEN <<Call(0, "create_motor",
                            [NoArgs EXCEPT !.pins = InitPins(parsed.v.f, config)], Raised)>>
                ELSE <<>>)
        /\ stepper_motor' = MotorAfterRejectedInit(stepper_motor)
        /\ UNCHANGED <<cfgFile, startup, config, created, hstate, serverRunning,
                       state, everInitOk, concVars>>

\* The response initialize_motor builds from what the driver's initialize() did.
InitResponse(oInit) ==
    CASE oInit = "true"  -> InitSuccessResponse
      [] oInit = "false" -> InitFailedResponse
      [] OTHER           -> InitErrorResponse

\* An initialize that keeps the handle the session already holds.
MotorAfterInitKeepingHeld(h, oInit) == IF stepper_motor # 0 THEN stepper_motor ELSE h
\* What initialize_motor leaves in self.stepper_motor once create_motor has
\* returned the object h: the assignment is made before initialize() is called
\* and nothing undoes it.
MotorAfterInit(h, oInit) == h

\* initialize_motor where create_motor returns a new driver object.
InitializeCreated(request, oInit) ==
    LET parsed == JsonLoads(GetRequestBody(request))
        h      == created + 1
        pins   == [NoArgs EXCEPT !.pins = InitPins(parsed.v.f, config)]
    IN  /\ parsed.ok /\ parsed.v.dict
        /\ created < MaxHandles
        /\ created' = h
        /\ stepper_motor' = MotorAfterInit(h, oInit)
        /\ hstate' = [hstate EXCEPT ![h] = IF oInit = "true" THEN "live" ELSE "failed"]
        /\ state' = IF oInit = "true" THEN Initialized ELSE Faulted
        /\ everInitOk' = (everInitOk \/ oInit = "true")
        /\ Send("initialize", request, InitResponse(oInit),
                <<Call(0, "create_motor", pins, Returned("ok")),
                  Call(h, "initialize", NoArgs, Returned(oInit))>>)
        /\ UNCHANGED <<cfgFile, startup, config, serverRunning, concVars>>

InitializeMotor ==
    \E request \in InitRequests :
        \/ \E oCreate \in {"raise"} : InitializeRejected(request, oCreate)
        \/ \E oInit \in {"true", "false", "raise"} : InitializeCreated(request, oInit)

\* A speed clamped to the advertised range before it is passed on.
SetSpeedArgClamped(cmd) ==
    IF cmd.speed > 1000 THEN 1000 ELSE IF cmd.speed < 0 THEN 0 ELSE cmd.speed
\* The arguments of set_speed and move_steps: the parsed values, as they are.
SetSpeedArg(cmd)  == cmd.speed
MoveStepsArg(cmd) == cmd.steps

\* A handler that drops the motor when the driver reports a failed move.
MotorAfterControlReleasing(h, made) ==
    IF Len(made) = 2 /\ made[2].ret.kind = "false" THEN 0 ELSE h
\* What control_motor leaves in self.stepper_motor: it assigns nothing,
\* whatever the driver answered.
MotorAfterControl(h, made) == h

\* The driver calls control_motor makes on the object h for a parsed command
\* whose direction lowers to `lowered`, given the driver's answers.
ControlCalls(h, cmd, lowered, oSpeed, oMove, oPos, p) ==
    LET setSpeed == Call(h, "set_speed", [NoArgs EXCEPT !.speed = SetSpeedArg(cmd)],
                         Returned(oSpeed))
        move     == Call(h, "move_steps",
                         [NoArgs EXCEPT !.steps = MoveStepsArg(cmd),
                                        !.dir = MotorDirection(lowered)],
                         Returned(oMove))
        readBack == Call(h, "get_stepper_position", NoArgs,
                         IF oPos = "ok" THEN Ret("ok", p, <<>>) ELSE Raised)
    IN  IF oSpeed = "raise" THEN <<setSpeed>>
        ELSE IF oMove # "true" THEN <<setSpeed, move>>
        ELSE <<setSpeed, move, readBack>>

\* A position computed by the handler from the command instead of read back.
ReportedPositionLocal(cmd, readBack) == cmd.steps
\* The position control_motor reports: the value get_stepper_position returned.
ReportedPosition(cmd, readBack) == readBack.ret.val

\* The response control_motor builds after the driver calls `made`.
ControlResponse(cmd, made) ==
    LET n == Len(made)
    IN  IF made[n].ret.kind = "raise" THEN ControlErrorResponse
        ELSE IF n = 2 THEN MoveFailedResponse
        ELSE MoveSuccessResponse(ReportedPosition(cmd, made[n]))

\* control_motor as a whole: the driver calls and the response.
ControlOutcome(request, h, oSpeed, oMove, oPos, p) ==
    LET cmd     == ParseControl(request)
        lowered == PyLower(cmd.direction)
        made    == ControlCalls(h, cmd, lowered.v, oSpeed, oMove, oPos, p)
    IN  IF ~cmd.ok THEN [resp |-> ControlErrorResponse, calls |-> <<>>]
        ELSE IF h = 0 THEN [resp |-> NotInitializedResponse, calls |-> <<>>]
        ELSE IF ~lowered.ok THEN [resp |-> ControlErrorResponse, calls |-> <<>>]
        ELSE [resp |-> ControlResponse(cmd, made), calls |-> made]

\* The answers the driver is asked for: set_speed, then move_steps unless
\* set_speed raised, then get_stepper_position when move_steps reported success.
MoveAnswers(oSpeed)      == IF oSpeed = "ok" THEN {"true", "false", "raise"} ELSE {"false"}
ReadBackAnswers(oMove)   == IF oMove = "true" THEN {"ok", "raise"} ELSE {"raise"}
ReadBackValues(oPos)     == IF oPos = "ok" THEN Positions ELSE {0}

\* control_motor that never reaches the driver: the command does not parse,
\* no motor is held, or the direction has no lower().
ControlWithoutDriver(request) ==
    \E out \in {ControlOutcome(request, stepper_motor, "raise", "false", "raise", 0)} :
        /\ out.calls = <<>>
        /\ Send("control", request, out.resp, out.calls)
        /\ UNCHANGED <<cfgFile, startup, config, stepper_motor, created, hstate, serverRunning,
                       state, everInitOk, concVars>>

\* control_motor that calls the driver.
ControlWithDriver(request, oSpeed, oMove, oPos, p) ==
    \E out \in {ControlOutcome(request, stepper_motor, oSpeed, oMove, oPos, p)} :
        /\ out.calls # <<>>
        /\ Send("control", request, out.resp, out.calls)
        /\ stepper_motor' = MotorAfterControl(stepper_motor, out.calls)
        /\ UNCHANGED <<cfgFile, startup, config, created, hstate, serverRunning,
                       state, everInitOk, concVars>>

ControlMotor ==
    \E request \in ControlRequests :
        \/ ControlWithoutDriver(request)
        \/ /\ stepper_motor # 0
           /\ \E oSpeed \in {"ok", "raise"} :
              \E oMove \in MoveAnswers(oSpeed) :
              \E oPos \in ReadBackAnswers(oMove) :
              \E p \in ReadBackValues(oPos) :
                 ControlWithDriver(request, oSpeed, oMove, oPos, p)

\* get_status without a motor: no driver call.
GetStatusWithoutMotor ==
    /\ stepper_motor = 0
    /\ Send("status", GetRequest, StatusNotInitializedResponse, <<>>)
    /\ UNCHANGED <<cfgFile, startup, config, stepper_motor, created, hstate, serverRunning,
                   state, everInitOk, concVars>>

\* get_status with a motor: the driver's get_status() answers with a dict.
GetStatusAnswered(motor_status) ==
    /\ stepper_motor # 0
    /\ Send("status", GetRequest, StatusInitializedResponse(motor_status),
            <<Call(stepper_motor, "get_status", NoArgs, Ret("ok", 0, motor_status))>>)
    /\ UNCHANGED <<cfgFile, startup, config, stepper_motor, created, hstate, serverRunning,
                   state, everInitOk, concVars>>

\* get_status with a motor whose get_status() raises: nothing catches it, and
\* the send calls after it are not reached.
GetStatusRaised ==
    /\ stepper_motor # 0
    /\ last' = Last("status", GetRequest)
    /\ calls' = <<Call(stepper_motor, "get_status", NoArgs, Raised)>>
    /\ response' = NoResponse
    /\ sent' = 0
    /\ escaped' = TRUE
    /\ UNCHANGED <<cfgFile, startup, config, stepper_motor, created, hstate, serverRunning,
                   state, everInitOk, concVars>>

GetStatus ==
    \/ GetStatusWithoutMotor
    \/ \E motor_status \in DriverStatuses : GetStatusAnswered(motor_status)
    \/ GetStatusRaised

\* What stop() leaves in self.stepper_motor: it assigns nothing.
MotorAfterStop(h) == h

\* stop(): shutdown() on the motor held, if any, then server.stop().  A raise
\* of shutdown() propagates before server.stop() is reached.
Stop ==
    \E oShut \in {"ok", "raise"} :
        /\ (stepper_motor = 0) => oShut = "ok"
        /\ last' = Last("stop", <<>>)
        /\ calls' = IF stepper_motor = 0 THEN <<>>
                    ELSE <<Call(stepper_motor, "shutdown", NoArgs, Returned(oShut))>>
        /\ hstate' = IF stepper_motor # 0 /\ oShut = "ok"
                     THEN [hstate EXCEPT ![stepper_motor] = "shutdown"]
                     ELSE hstate
        /\ stepper_motor' = MotorAfterStop(stepper_motor)
        /\ serverRunning' = IF oShut = "ok" THEN FALSE ELSE serverRunning
        /\ state' = IF state = Initialized THEN Uninitialized ELSE state
        /\ response' = NoResponse
        /\ sent' = 0
        /\ escaped' = (oShut = "raise")
        /\ UNCHANGED <<cfgFile, startup, config, created, everInitOk, concVars>>

Next ==
    \/ Start
    \/ InitializeMotor
    \/ ControlMotor
    \/ GetStatus
    \/ Stop

Spec == Init /\ [][Next]_vars

\* ------------------------------------------------------ started by run.py
\* run.py's main resolves host and port from the configuration file before it
\* constructs the SmartStepper; an exception there ends the process.
RunMain ==
    \E args \in RunArgs :
        /\ ~startup.ran
        /\ startup' = RunStartup(cfgFile, args)
        /\ UNCHANGED <<cfgFile, config, stepper_motor, created, hstate, serverRunning,
                       last, calls, response, sent, escaped, state, everInitOk, concVars>>

NextRun ==
    \/ RunMain
    \/ startup.ok /\ Next

SpecRun == Init /\ [][NextRun]_vars

\* ------------------------------------------------- concurrent transport
\* The handlers hold no lock.  Under a transport that runs one handler per
\* thread, a handler is a sequence of steps, one per evaluation of
\* self.stepper_motor, and steps of different threads interleave.  A thread's
\* log keeps, with each driver call, what the object had been through when the
\* call was made.
Logged(call) == [call |-> call, was |-> IF call.h = 0 THEN "none" ELSE hstate[call.h]]

ConcControlRequests ==
    { Post(Object([direction |-> Str(forward), speed |-> Num(60), steps |-> Num(200)])),
      Post(Object([direction |-> Str(backward), speed |-> Num(30), steps |-> Num(100)])) }
ConcInitRequests ==
    { Post(Object([step_pin |-> Num(18), dir_pin |-> Num(19), enable_pin |-> Num(20)])) }

sharedSeq == <<cfgFile, startup, config, serverRunning, last, calls, response, sent, escaped,
               state, everInitOk>>

Goto(t, label) == pc' = [pc EXCEPT ![t] = label]
Log(t, call)   == tcalls' = [tcalls EXCEPT ![t] = Append(@, Logged(call))]

\* control_motor, lines 177-184: parse the command, then test self.stepper_motor.
CtlBegin(t, request) ==
    \E cmd \in {ParseControl(request)} :
        /\ pc[t] = "idle"
        /\ cmd.ok /\ PyLower(cmd.direction).ok
        /\ treq' = [treq EXCEPT ![t] = cmd]
        /\ tcalls' = [tcalls EXCEPT ![t] = <<>>]
        /\ Goto(t, IF stepper_motor = 0 THEN "idle" ELSE "ctl_set_speed")
        /\ UNCHANGED <<stepper_motor, created, hstate, sharedSeq>>

\* line 194: self.stepper_motor.set_speed(speed)
CtlSetSpeed(t, oSpeed) ==
    /\ pc[t] = "ctl_set_speed"
    /\ Log(t, Call(stepper_motor, "set_speed",
                   [NoArgs EXCEPT !.speed = treq[t].speed], Returned(oSpeed)))
    /\ Goto(t, IF oSpeed = "ok" THEN "ctl_move_steps" ELSE "idle")
    /\ UNCHANGED <<stepper_motor, created, hstate, treq, sharedSeq>>

\* line 197: success = self.stepper_motor.move_steps(steps, motor_direction)
CtlMoveSteps(t, oMove) ==
    /\ pc[t] = "ctl_move_steps"
    /\ Log(t, Call(stepper_motor, "move_steps",
                   [NoArgs EXCEPT !.steps = treq[t].steps,
                                  !.dir = MotorDirection(PyLower(treq[t].direction).v)],
                   Returned(oMove)))
    /\ Goto(t, IF oMove = "true" THEN "ctl_read_back" ELSE "idle")
    /\ UNCHANGED <<stepper_motor, created, hstate, treq, sharedSeq>>

\* line 203: self.stepper_motor.get_stepper_position()
CtlReadBack(t, p) ==
    /\ pc[t] = "ctl_read_back"
    /\ Log(t, Call(stepper_motor, "get_stepper_position", NoArgs, Ret("ok", p, <<>>)))
    /\ Goto(t, "idle")
    /\ UNCHANGED <<stepper_motor, created, hstate, treq, sharedSeq>>

\* initialize_motor, lines 264-272: self.stepper_motor = create_motor(...)
InitCreate(t, request) ==
    \E parsed \in {JsonLoads(GetRequestBody(request))} :
        /\ pc[t] = "idle"
        /\ parsed.ok /\ parsed.v.dict
        /\ created < MaxHandles
        /\ created' = created + 1
        /\ stepper_motor' = created + 1
        /\ hstate' = [hstate EXCEPT ![created + 1] = "created"]
        /\ tcalls' = [tcalls EXCEPT ![t] =
               <<[call |-> Call(0, "create_motor",
                                [NoArgs EXCEPT !.pins = InitPins(parsed.v.f, config)],
                                Returned("ok")),
                  was |-> "none"]>>]
        /\ Goto(t, "init_initialize")
        /\ UNCHANGED <<treq, sharedSeq>>

\* line 275: success = self.stepper_motor.initialize()
InitInitialize(t, oInit) ==
    /\ pc[t] = "init_initialize"
    /\ Log(t, Call(stepper_motor, "initialize", NoArgs, Returned(oInit)))
    /\ hstate' = [hstate EXCEPT ![stepper_motor] = IF oInit = "true" THEN "live" ELSE "failed"]
    /\ Goto(t, "idle")
    /\ UNCHANGED <<stepper_motor, created, treq, sharedSeq>>

\* get_status, line 225: test self.stepper_motor
StatusBegin(t) ==
    /\ pc[t] = "idle"
    /\ tcalls' = [tcalls EXCEPT ![t] = <<>>]
    /\ Goto(t, IF stepper_motor = 0 THEN "idle" ELSE "status_query")
    /\ UNCHANGED <<stepper_motor, created, hstate, treq, sharedSeq>>

\* line 231: motor_status = self.stepper_motor.get_status()
StatusQuery(t, motor_status) ==
    /\ pc[t] = "status_query"
    /\ Log(t, Call(stepper_motor, "get_status", NoArgs, Ret("ok", 0, motor_status)))
    /\ Goto(t, "idle")
    /\ UNCHANGED <<stepper_motor, created, hstate, treq, sharedSeq>>

\* stop, line 327: test self.stepper_motor
StopBegin(t) ==
    /\ pc[t] = "idle"
    /\ tcalls' = [tcalls EXCEPT ![t] = <<>>]
    /\ Goto(t, IF stepper_motor = 0 THEN "idle" ELSE "stop_shutdown")
    /\ UNCHANGED <<stepper_motor, created, hstate, treq, sharedSeq>>

\* line 328: self.stepper_motor.shutdown()
StopShutdown(t) ==
    /\ pc[t] = "stop_shutdown"
    /\ Log(t, Call(stepper_motor, "shutdown", NoArgs, Returned("ok")))
    /\ hstate' = [hstate EXCEPT ![stepper_motor] = "shutdown"]
    /\ Goto(t, "idle")
    /\ UNCHANGED <<stepper_motor, created, treq, sharedSeq>>

ThreadStep(t) ==
    \/ \E request \in ConcControlRequests : CtlBegin(t, request)
    \/ \E oSpeed \in {"ok", "raise"} : CtlSetSpeed(t, oSpeed)
    \/ \E oMove \in {"true", "false"} : CtlMoveSteps(t, oMove)
    \/ \E p \in Positions : CtlReadBack(t, p)
    \/ \E request \in ConcInitRequests : InitCreate(t, request)
    \/ \E oInit \in {"true", "false"} : InitInitialize(t, oInit)
    \/ StatusBegin(t)
    \/ \E motor_status \in {[position |-> 0, speed |-> 0, initialized |-> TRUE]} :
          StatusQuery(t, motor_status)
    \/ StopBegin(t)
    \/ StopShutdown(t)

InitConc == Init /\ cfgFile = ConfigFile(FALSE, FALSE, <<>>)

NextConc == \E t \in Threads : ThreadStep(t)

SpecConc == InitConc /\ [][NextConc]_vars

\* ================================================================ claims
LiveHandles == { h \in Handles : hstate[h] = "live" }
LastCommand == ParseControl(last.request)
IsMove      == last.op = "control" /\ LastCommand.ok
DriverInitFailed ==
    /\ last.op = "initialize"
    /\ Len(calls) = 2
    /\ calls[2].op = "initialize"
    /\ calls[2].ret.kind # "true"

\* C1: a move issued while no initialize has yet succeeded returns
\* NotInitialized and makes no call on any driver.
C1_MoveBeforeInitRejected ==
    (IsMove /\ ~everInitOk) =>
        (response = NotInitializedResponse /\ calls = <<>>)

\* C2: when the driver's init reports failure (returns false or raises) the
\* session ends Faulted with the handle released, so that the next status
\* reports not_initialized and the next move NotInitialized, neither touching
\* the driver.
C2_FailedInitFaults ==
    /\ DriverInitFailed => (state = Faulted /\ stepper_motor = 0)
    /\ (last.state = Faulted /\ last.op = "status") =>
           (response = StatusNotInitializedResponse /\ calls = <<>>)
    /\ (last.state = Faulted /\ IsMove) =>
           (response = NotInitializedResponse /\ calls = <<>>)

\* C3: at most one driver handle is created, initialized and not yet shut down.
C3_AtMostOneLiveHandle == Cardinality(LiveHandles) <= 1

\* C4: the session holds a driver handle if and only if its state is
\* Initialized.
C4_HandleIffInitialized == (stepper_motor # 0) <=> (state = Initialized)

\* C5: a stop in state Initialized calls shutdown exactly once, releases the
\* handle and leaves the state Uninitialized; a stop in Uninitialized or
\* Faulted makes no driver call; after a stop, a move returns NotInitialized
\* and a status not_initialized.
C5_StopReleases ==
    /\ (last.op = "stop" /\ last.state = Initialized) =>
           /\ Len(calls) = 1 /\ calls[1].op = "shutdown" /\ calls[1].h = last.motor
           /\ stepper_motor = 0
           /\ state = Uninitialized
    /\ (last.op = "stop" /\ last.state # Initialized) => calls = <<>>
    /\ (last.state = Uninitialized /\ IsMove) =>
           (response = NotInitializedResponse /\ calls = <<>>)
    /\ (last.state = Uninitialized /\ last.op = "status") =>
           (response = StatusNotInitializedResponse /\ calls = <<>>)

\* C6: a move executed with a motor held first sets the driver's speed to the
\* command's speed, then requests the command's steps with forward = true,
\* both on the handle held; the move is requested whenever set_speed returns,
\* the position is read back whenever the move reports success, and a success
\* response carries exactly the value read back.  In state Initialized every
\* command whose direction is a string reaches the driver.
C6_MoveProtocol ==
    /\ (last.op = "control" /\ calls # <<>>) =>
        /\ LastCommand.ok /\ LastCommand.direction.ty = "str"
        /\ last.motor # 0
        /\ \A i \in DOMAIN calls : calls[i].h = last.motor
        /\ calls[1].op = "set_speed"
        /\ calls[1].args.speed = LastCommand.speed
        /\ calls[1].ret.kind = "ok" <=> Len(calls) >= 2
        /\ Len(calls) >= 2 =>
              /\ calls[2].op = "move_steps"
              /\ calls[2].args.steps = LastCommand.steps
              /\ calls[2].args.dir = (Lower(LastCommand.direction.s) = forward)
              /\ calls[2].ret.kind = "true" <=> Len(calls) = 3
        /\ Len(calls) = 3 => calls[3].op = "get_stepper_position"
        /\ response.status = "success" <=> (Len(calls) = 3 /\ calls[3].ret.kind = "ok")
        /\ response.status = "success" =>
              /\ "position" \in response.fields
              /\ response.position = calls[3].ret.val
    /\ (IsMove /\ last.state = Initialized /\ LastCommand.direction.ty = "str") =>
           calls # <<>>

\* C6 witness: the backward move of 100 steps at 30 RPM on an Initialized
\* session, the driver reading back 0.
C6_Witness ==
    /\ last.op = "control" /\ last.state = Initialized
    /\ Len(calls) = 3
    /\ calls[1].args.speed = 30
    /\ calls[2].args.steps = 100 /\ calls[2].args.dir = FALSE
    /\ calls[3].ret.val = 0
    /\ response.status = "success" /\ response.position = 0

\* C7: status in Uninitialized or Faulted returns not_initialized without a
\* driver call; status in Initialized queries the driver once and returns its
\* position, speed and initialized values unchanged.
C7_StatusGating ==
    /\ (last.op = "status" /\ last.state \in {Uninitialized, Faulted}) =>
           (response = StatusNotInitializedResponse /\ calls = <<>>)
    /\ (last.op = "status" /\ last.state = Initialized /\ sent = 1) =>
           /\ Len(calls) = 1 /\ calls[1].op = "get_status" /\ calls[1].h = last.motor
           /\ \A k \in DOMAIN calls[1].ret.st : response[k] = calls[1].ret.st[k]

\* C8 as stated: the status field of every response is success, error or
\* not_initialized.
C8_StatusEnum ==
    sent > 0 => response.status \in {"success", "error", "not_initialized"}

\* C8 amended: the status field of every response is success, error,
\* not_initialized or initialized, the last only from a status request
\* answered by the driver.
C8_StatusEnumAmended ==
    sent > 0 =>
        /\ response.status \in {"success", "error", "not_initialized", "initialized"}
        /\ response.status = "initialized" =>
               (last.op = "status" /\ Len(calls) = 1 /\ calls[1].ret.kind = "ok")
        /\ response.status = "not_initialized" => last.op = "status"
        /\ last.op \in {"initialize", "control"} => response.status \in {"success", "error"}

\* C8 witness: a status request the driver answered has been sent with status
\* initialized, on a session whose initialize succeeded.
C8_Witness ==
    /\ last.op = "status" /\ last.state = Initialized
    /\ sent = 1 /\ response.status = "initialized"

\* C9: handlers run atomically with respect to each other: the driver calls of
\* one request all act on one handle, initialize() is called only on a handle
\* on which nothing was called before, and no call is made on a handle that
\* has been shut down.
C9_OperationsAtomic ==
    \A t \in Threads :
        \A i \in DOMAIN tcalls[t] :
            /\ tcalls[t][i].was # "shutdown"
            /\ tcalls[t][i].call.op = "initialize" => tcalls[t][i].was = "created"
            /\ \A j \in DOMAIN tcalls[t] :
                   (tcalls[t][i].call.h # 0 /\ tcalls[t][j].call.h # 0) =>
                       tcalls[t][i].call.h = tcalls[t][j].call.h

\* C10: every initialize, move and status request ends by sending exactly one
\* response, and no exception propagates out of the handler.
C10_NoErrorEscapes ==
    last.op \in {"initialize", "control", "status"} => (sent = 1 /\ ~escaped)

\* The fields of the payload of the request handled last.
LastData == JsonLoads(GetRequestBody(last.request)).v.f

\* C11: a move that omits speed, steps or direction is executed with the
\* resolved configuration's default_speed and default_steps and with direction
\* forward; a field present in the payload is used instead of its default.
C11_MoveDefaultsFromConfig ==
    (last.op = "control" /\ last.state = Initialized /\ calls # <<>>) =>
        /\ "speed" \notin DOMAIN LastData =>
               calls[1].args.speed = Layout(config).speed_default
        /\ ("steps" \notin DOMAIN LastData /\ Len(calls) >= 2) =>
               calls[2].args.steps = Layout(config).steps_default
        /\ ("direction" \notin DOMAIN LastData /\ Len(calls) >= 2) =>
               calls[2].args.dir = TRUE
        /\ ("speed" \in DOMAIN LastData /\ LastData["speed"].ty = "num") =>
               calls[1].args.speed = LastData["speed"].n
        /\ ("steps" \in DOMAIN LastData /\ LastData["steps"].ty = "num" /\ Len(calls) >= 2) =>
               calls[2].args.steps = LastData["steps"].n

\* The string is "forward" up to the case of each letter.
EqualsForwardIgnoringCase(s) ==
    /\ Len(s) = 7
    /\ \A i \in 1..7 : s[i] \in {forward[i], FORWARD[i]}

\* C12: for every direction string in a move payload, the boolean passed to
\* the driver's move_steps is true exactly when the string is "forward"
\* ignoring case; every move with a string direction that gets past set_speed
\* reaches move_steps.
C12_DirectionMapping ==
    (last.op = "control" /\ "direction" \in DOMAIN LastData
        /\ LastData["direction"].ty = "str" /\ calls # <<>>) =>
        /\ calls[1].ret.kind = "ok" => Len(calls) >= 2
        /\ Len(calls) >= 2 =>
              /\ calls[2].op = "move_steps"
              /\ calls[2].args.dir = EqualsForwardIgnoringCase(LastData["direction"].s)

\* C12 witness: a move whose direction is "Forward" has reached move_steps
\* with forward = true.
C12_Witness ==
    /\ last.op = "control" /\ "direction" \in DOMAIN LastData
    /\ LastData["direction"] = Str(Forward)
    /\ Len(calls) >= 2 /\ calls[2].op = "move_steps" /\ calls[2].args.dir = TRUE

\* C13: wherever the program loads configuration, an absent or corrupt source
\* yields the full built-in default configuration and nothing is raised.
C13_ConfigFallback ==
    (~cfgFile.exists \/ ~cfgFile.valid) =>
        /\ config = DefaultConfig
        /\ startup.ran => (startup.ok /\ startup.config = DefaultConfig)

\* C14: in state Initialized a move whose speed or steps parses to a negative
\* number is answered with status error and makes no driver call.
C14_NegativeRejected ==
    (IsMove /\ last.state = Initialized
        /\ (LastCommand.speed < 0 \/ LastCommand.steps < 0)) =>
        (response.status = "error" /\ calls = <<>>)

\* C16: when the driver's shutdown raises during a stop in state Initialized,
\* nothing propagates to the caller and stop completes: handle released, state
\* Uninitialized, server stopped.
C16_BestEffortShutdown ==
    (last.op = "stop" /\ last.state = Initialized
        /\ calls # <<>> /\ calls[1].ret.kind = "raise") =>
        /\ ~escaped
        /\ ~serverRunning
        /\ stepper_motor = 0
        /\ state = Uninitialized

\* The driver has reported failure for the move handled last, in state Initialized.
MoveFailed ==
    /\ last.op = "control" /\ last.state = Initialized
    /\ Len(calls) = 2 /\ calls[2].op = "move_steps" /\ calls[2].ret.kind = "false"

\* C15: a move the driver reports as failed in state Initialized is answered
\* with the error "Failed to move motor" and leaves the session Initialized
\* with the same handle; the status or the move handled next is dispatched to
\* that handle; the session becomes Faulted only by a failed driver init.
C15_FailedMoveNotFatal ==
    [][ /\ MoveFailed' =>
              /\ response'.status = "error"
              /\ response'.message = "Failed to move motor"
              /\ stepper_motor' = last'.motor
              /\ state' = Initialized
        /\ (MoveFailed /\ last'.op = "status") =>
              (calls' # <<>> /\ calls'[1].op = "get_status" /\ calls'[1].h = last.motor)
        /\ (MoveFailed /\ last'.op = "control" /\ ParseControl(last'.request).ok
               /\ ParseControl(last'.request).direction.ty = "str") =>
              (calls' # <<>> /\ \A i \in DOMAIN calls' : calls'[i].h = last.motor)
        /\ (state' = Faulted /\ state # Faulted) => DriverInitFailed'
      ]_vars

\* C15 witness: a failed move on an Initialized session has been answered and
\* the session still holds the handle it was made on.
C15_Witness ==
    /\ MoveFailed
    /\ response.status = "error"
    /\ stepper_motor = last.motor /\ stepper_motor # 0

\* The characters are a numeral: an optional sign, then one or more digits.
IsNumeral(s) ==
    /\ s # <<>>
    /\ \A i \in DOMAIN s :
          s[i] \in {"0", "1", "2", "3", "4", "5", "6", "7", "8", "9"} \/ (i = 1 /\ s[i] = "-")
    /\ s # <<"-">>
NonNumeric(v) == v.ty = "null" \/ (v.ty = "str" /\ ~IsNumeral(v.s))
LastHasText(kind) ==
    \E i \in DOMAIN last.request :
        last.request[i].t = "text" /\ last.request[i].json.kind = kind
LastUnparseable ==
    \/ LastHasText("malformed")
    \/ \E k \in {"speed", "steps"} : k \in DOMAIN LastData /\ NonNumeric(LastData[k])
\* The payload is empty or an object whose fields, where present, are well formed.
LastOmitsOnly ==
    /\ ~LastHasText("malformed") /\ ~LastHasText("nonobject")
    /\ \A k \in {"speed", "steps"} : k \in DOMAIN LastData => ~NonNumeric(LastData[k])
    /\ "direction" \in DOMAIN LastData => LastData["direction"].ty = "str"

\* C17: a move whose payload is malformed JSON or whose speed or steps is not
\* numeric is answered with status error, makes no driver call and leaves the
\* session state and the handle as they were; a payload that only omits
\* fields is never refused for that: it reaches the driver when a motor is
\* held and is answered NotInitialized when none is.
C17_UnparseableRejected ==
    /\ (last.op = "control" /\ LastUnparseable) =>
          /\ sent = 1 /\ response.status = "error"
          /\ calls = <<>>
          /\ stepper_motor = last.motor
          /\ state = last.state
    /\ (last.op = "control" /\ LastOmitsOnly) =>
          IF last.motor = 0 THEN response = NotInitializedResponse ELSE calls # <<>>

\* C17 witness: on an Initialized session a move with the speed "fast" has been
\* refused without a driver call.
C17_Witness ==
    /\ last.op = "control" /\ last.state = Initialized /\ last.motor # 0
    /\ "speed" \in DOMAIN LastData /\ LastData["speed"] = Str(<<"f", "a", "s", "t">>)
    /\ response.status = "error" /\ calls = <<>>

\* C19: each documented field present in a loaded configuration is the value
\* the program uses and each absent field or subtree takes its built-in
\* default, without any lookup failing: run.py resolves host and port, an
\* initialize that omits a pin or microsteps gets the configured or built-in
\* one, and a move that omits speed or steps gets the configured or built-in
\* default.
C19_ConfigOverride ==
    (cfgFile.exists /\ cfgFile.valid) =>
        /\ config = cfgFile.content
        /\ startup.ran => startup.ok
        /\ (last.op = "initialize" /\ calls # <<>>) =>
              \A k \in {"step_pin", "dir_pin", "enable_pin"} :
                  k \notin DOMAIN LastData =>
                      calls[1].args.pins[k] =
                          Get(Get(Get(config, "motor", <<>>), "default_pins", <<>>), k,
                              DefaultConfig.motor.default_pins[k])
        /\ (last.op = "control" /\ last.state = Initialized /\ calls # <<>>
               /\ "speed" \notin DOMAIN LastData) =>
              calls[1].args.speed = Layout(config).speed_default

\* C20: for every move in state Initialized whose speed and steps parse, the
\* values passed to set_speed and move_steps are exactly the parsed payload
\* values, whether or not they lie in the configured ranges.
C20_NoClamping ==
    (last.op = "control" /\ last.state = Initialized /\ calls # <<>>) =>
        /\ calls[1].op = "set_speed"
        /\ calls[1].args.speed = LastCommand.speed
        /\ ("speed" \in DOMAIN LastData /\ LastData["speed"].ty = "num") =>
              calls[1].args.speed = LastData["speed"].n
        /\ Len(calls) >= 2 =>
              /\ calls[2].args.steps = LastCommand.steps
              /\ ("steps" \in DOMAIN LastData /\ LastData["steps"].ty = "num") =>
                    calls[2].args.steps = LastData["steps"].n

\* C20 witness: a speed above the layout's maximum speed and a step count
\* above its maximum steps have been passed to the driver as they were sent.
C20_Witness ==
    /\ last.op = "control" /\ last.state = Initialized /\ Len(calls) >= 2
    /\ calls[1].args.speed = 2000 /\ calls[1].args.speed > Layout(config).speed_max
    /\ calls[2].args.steps = 20000 /\ calls[2].args.steps > Layout(config).steps_max

\* The initialize handled last created a driver object and its init succeeded.
InitSucceeded ==
    /\ last.op = "initialize"
    /\ Len(calls) = 2
    /\ calls[1].op = "create_motor" /\ calls[1].ret.kind = "ok"
    /\ calls[2].op = "initialize" /\ calls[2].ret.kind = "true"

\* C21: from any session state, an initialize whose driver creation and init
\* succeed is answered with success and leaves the session Initialized on the
\* handle it has just created, which no earlier operation held; the move
\* handled next is dispatched to that handle and to no earlier one.
C21_RecoveryByReinitialize ==
    [][ /\ InitSucceeded' =>
              /\ response'.status = "success"
              /\ state' = Initialized
              /\ stepper_motor' = calls'[2].h
              /\ stepper_motor' = created' /\ hstate'[stepper_motor'] = "live"
              /\ stepper_motor' # last'.motor
        /\ (InitSucceeded' /\ last' # last) => created' = created + 1
        /\ (InitSucceeded /\ last'.op = "control" /\ ParseControl(last'.request).ok
               /\ ParseControl(last'.request).direction.ty = "str") =>
              /\ calls' # <<>>
              /\ \A i \in DOMAIN calls' : calls'[i].h = calls[2].h
      ]_vars

\* C21 witness: after an initialize that failed on the first handle, a second
\* initialize has succeeded and a move has been dispatched to the second handle.
C21_Witness ==
    /\ hstate[1] = "failed" /\ hstate[2] = "live"
    /\ last.op = "control" /\ last.state = Initialized /\ last.motor = 2
    /\ calls # <<>> /\ \A i \in DOMAIN calls : calls[i].h = 2

\* The initialize handled last failed before a new driver object existed: the
\* payload did not parse, or create_motor raised.
InitRejected ==
    /\ last.op = "initialize"
    /\ \/ calls = <<>>
       \/ Len(calls) = 1 /\ calls[1].op = "create_motor" /\ calls[1].ret.kind = "raise"

\* C22: an initialize that fails before a new driver is created (payload not
\* parseable, or create_motor raising) is answered with status error and leaves
\* the held handle, the handles' states and the session state as they were; a
\* move handled next on a session that was Initialized reaches that handle.
C22_RejectedInitLeavesSession ==
    [][ /\ InitRejected' =>
              /\ sent' = 1 /\ response'.status = "error"
              /\ stepper_motor' = last'.motor
              /\ state' = last'.state
              /\ stepper_motor' = stepper_motor /\ state' = state
              /\ hstate' = hstate /\ created' = created
        /\ (InitRejected /\ last.state = Initialized /\ last'.op = "control"
               /\ ParseControl(last'.request).ok
               /\ ParseControl(last'.request).direction.ty = "str") =>
              /\ calls' # <<>>
              /\ \A i \in DOMAIN calls' : calls'[i].h = last.motor
      ]_vars

\* C22 witness: an initialize with a malformed payload has been refused on an
\* Initialized session, which still holds its live handle.
C22_Witness ==
    /\ InitRejected /\ LastHasText("malformed")
    /\ last.state = Initialized /\ state = Initialized
    /\ stepper_motor = last.motor /\ stepper_motor # 0 /\ hstate[stepper_motor] = "live"
    /\ response.status = "error"

====
